---- MODULE Spec2Model ----
(***************************************************************************)
(* Order workflow of the `order` app: the views of order/views.py and the  *)
(* serializers of order/serializers.py, as a state machine over the Order  *)
(* table.  One action per request handler; a handler is one atomic step.   *)
(***************************************************************************)
EXTENDS Integers, Sequences, FiniteSets, TLC

VARIABLES
    orders,     \* the Order table: primary key -> row
    nextId,     \* the next primary key the store hands out (auto-increment)
    resp,       \* the last HTTP response: handler, order it resolved, status code
    trail,      \* history of each row (not program state): how its status arose
    issued,     \* history (not program state): the order_no each primary key
                \* was created with, rows since deleted included
    calls,      \* the requests in flight whose handler runs as several steps:
                \* worker -> the handler's position and local variables
    today       \* timezone.now().date() / date.today(): the current day

vars == <<orders, nextId, resp, trail, issued, calls, today>>

----------------------------------------------------------------------------
(* Bounds *)

\* rows the store may ever hold (primary keys 1..MaxOrders) when every
\* handler is in use
MaxOrders == 1

\* rows the store may ever hold when only the intake handlers are in use
MaxIntakeOrders == 3

\* orders that may ever be created when only creation and the key user's
\* reject-delete are in use
MaxCreations == 5

\* orders that may ever be created when creations run concurrently
MaxRacingCreations == 5

\* rows the store may ever hold when craftsman responses run concurrently
MaxRacedOrders == 2

\* days that may pass after the store is set up
MaxDays == 1

\* rows the store may ever hold when only creation, the approvals and the
\* assignment are in use
MaxAssignedOrders == 2

\* rows the store may ever hold when the admin's handlers run concurrently
MaxAdminRacedOrders == 2

----------------------------------------------------------------------------
(* Values *)

\* None / SQL NULL in a foreign-key or date column: a value that is no
\* primary key and no date
NULL == -9

\* request.user when a user column is empty
NoUser == "none"

\* The BusinessPartner table in primary-key order: the craftsman directory.
Directory ==
    << [id |-> 1, role |-> "CRAFTSMAN"],
       [id |-> 2, role |-> "CRAFTSMAN"],
       [id |-> 3, role |-> "DEALER"] >>

DirectoryIds == { Directory[i].id : i \in 1..Len(Directory) }

\* BusinessPartner.objects.filter(role="CRAFTSMAN"), in primary-key order
Craftsmen == SelectSeq(Directory, LAMBDA e : e.role = "CRAFTSMAN")

\* request.user: the users that send requests, their role_name and the
\* business partner (craftsman) record each one is
Users == {"keyuser", "admin", "craftsman1"}

RoleName(u) ==
    CASE u = "keyuser" -> "Key User"
      [] u = "admin" -> "Admin"
      [] OTHER -> "Craftsman"

PartnerOf(u) == IF u = "craftsman1" THEN 1 ELSE NULL

\* dates are days counted from the day the store is set up, day 0
DueDates == {0, 1}

\* request.data.get('approval_notes', '') / ('rejection_notes', '')
Notes == {"note"}

\* order_no is a string of decimal digits, kept as the sequence of its digits
\* ("001" is <<0, 0, 1>>); the empty sequence is a blank order_no
Blank == << >>

RECURSIVE Digits(_)
\* str(n) for n >= 0
Digits(n) == IF n < 10 THEN << n >> ELSE Digits(n \div 10) \o << n % 10 >>

\* f"{n:02d}"
Format02(n) == IF n < 10 THEN << 0, n >> ELSE Digits(n)

RECURSIVE IntOf(_)
\* int(s) for a non-empty digit string s
IntOf(s) ==
    IF Len(s) = 1 THEN s[1]
    ELSE 10 * IntOf(SubSeq(s, 1, Len(s) - 1)) + s[Len(s)]

\* int(s) raises ValueError on the empty string
ParsesAsInt(s) == Len(s) > 0

\* the status a row gets when none is passed to Order.objects.create
DefaultStatus == "pending"

\* a fresh row: every workflow column empty
NewOrder(no, st, bp, due) ==
    [ order_no |-> no, status |-> st, bp_code |-> bp,
      due_date |-> due, order_date |-> today,
      craftsman |-> NULL, rejected_by |-> NULL,
      approved_by_key_user |-> NoUser, key_user_approval_notes |-> "",
      verified_by_admin |-> NoUser, admin_approval_notes |-> "",
      rejected_by_admin |-> NoUser, admin_rejection_notes |-> "" ]

NewTrail == [ via |-> "create", accepted |-> FALSE, rejecters |-> {} ]

Ids == DOMAIN orders

\* Order.objects.filter(order_no=no)
WithOrderNo(no) == { i \in Ids : orders[i].order_no = no }

\* the order_no values a request may carry: every stored one and one that
\* no row has
OrderNoInputs == { orders[i].order_no : i \in Ids } \cup { << 9, 9 >> }

\* the primary keys a request may carry: every one a store of cap rows
\* could hold
IdInputs(cap) == 1..cap

Response(op, id, code) == [ op |-> op, id |-> id, code |-> code ]

\* the server's workers: each runs one request at a time
Workers == {"w1", "w2"}

\* a worker between two requests
Idle == [ pc |-> "idle" ]

\* a request that is answered without touching the table
Refuse(op, id, code) ==
    /\ resp' = Response(op, id, code)
    /\ UNCHANGED <<orders, nextId, trail, issued, calls, today>>

\* order.save() of row id with the new column values, and the response
Save(op, id, row, code, tr) ==
    /\ orders' = [orders EXCEPT ![id] = row]
    /\ trail' = [trail EXCEPT ![id] = tr]
    /\ resp' = Response(op, id, code)
    /\ UNCHANGED <<nextId, issued, calls, today>>

\* a function extended with one more key
Extend(f, k, v) == [ x \in DOMAIN f \cup {k} |-> IF x = k THEN v ELSE f[x] ]

\* a function without one key
Without(f, k) == [ x \in DOMAIN f \ {k} |-> f[x] ]

----------------------------------------------------------------------------
(* Init *)

Init ==
    /\ orders = << >>
    /\ nextId = 1
    /\ resp = Response("none", 0, 0)
    /\ trail = << >>
    /\ issued = << >>
    /\ calls = [w \in Workers |-> Idle]
    /\ today = 0

----------------------------------------------------------------------------
(* Order creation: OrderCreateView.post with OrderSerializer *)

\* validate_due_date with  value < today  for  value <= today : it lets a
\* due_date of today pass
ValidDueDateFromToday(value) == ~(value < today)

\* OrderSerializer.validate_due_date
ValidDueDate(value) == ~(value <= today)

\* Order.objects.all().order_by('id').last()
LastOrderId == CHOOSE i \in Ids : \A j \in Ids : j <= i

\* OrderSerializer.create numbering by the row count alone (its except
\* branch taken always)
NewOrderNoByCount == Format02(Cardinality(Ids) + 1)

\* OrderSerializer.create: the order_no of the new row
NewOrderNo ==
    IF Ids = {} THEN << 0, 0, 1 >>
    ELSE IF ParsesAsInt(orders[LastOrderId].order_no)
         THEN Format02(IntOf(orders[LastOrderId].order_no) + 1)
         ELSE Format02(Cardinality(Ids) + 1)

\* bp is NULL when the request carries no bp_code; cap bounds the store
OrderCreate(cap, bp, due) ==
    IF ~ValidDueDate(due) THEN Refuse("create", 0, 400)
    ELSE IF bp = NULL THEN Refuse("create", 0, 400)
    ELSE /\ nextId <= cap
         /\ orders' = Extend(orders, nextId, NewOrder(NewOrderNo, "pending", bp, due))
         /\ trail' = Extend(trail, nextId, NewTrail)
         /\ nextId' = nextId + 1
         /\ issued' = Extend(issued, nextId, NewOrderNo)
         /\ resp' = Response("create", nextId, 201)
         /\ UNCHANGED <<calls, today>>

----------------------------------------------------------------------------
(* KeyUserApprovalView *)

KeyUserApprove(user, id, notes) ==
    IF id \notin Ids THEN Refuse("key_approve", 0, 404)
    ELSE IF orders[id].status # "pending" THEN Refuse("key_approve", id, 400)
    ELSE Save("key_approve", id,
              [orders[id] EXCEPT !.status = "in-process",
                                 !.key_user_approval_notes = notes,
                                 !.approved_by_key_user = user],
              200, [trail[id] EXCEPT !.via = "key_approve"])

\* KeyUserDelete without its status check: it deletes an order in any status
KeyUserDeleteAnyStatus(user, id, notes) ==
    IF id \notin Ids THEN Refuse("key_delete", 0, 404)
    ELSE /\ orders' = Without(orders, id)
         /\ trail' = Without(trail, id)
         /\ resp' = Response("key_delete", id, 200)
         /\ UNCHANGED <<nextId, issued, calls, today>>

KeyUserDelete(user, id, notes) ==
    IF id \notin Ids THEN Refuse("key_delete", 0, 404)
    ELSE IF orders[id].status # "pending" THEN Refuse("key_delete", id, 400)
    ELSE /\ orders' = Without(orders, id)
         /\ trail' = Without(trail, id)
         /\ resp' = Response("key_delete", id, 200)
         /\ UNCHANGED <<nextId, issued, calls, today>>

----------------------------------------------------------------------------
(* AdminVerificationView *)

AdminVerify(user, id, notes) ==
    IF id \notin Ids THEN Refuse("admin_verify", 0, 404)
    ELSE IF orders[id].status # "in-process" THEN Refuse("admin_verify", id, 400)
    ELSE Save("admin_verify", id,
              [orders[id] EXCEPT !.status = "verified",
                                 !.admin_approval_notes = notes,
                                 !.verified_by_admin = user],
              200, [trail[id] EXCEPT !.via = "admin_verify"])

AdminReject(user, id, notes) ==
    IF id \notin Ids THEN Refuse("admin_reject", 0, 404)
    ELSE IF orders[id].status # "in-process" THEN Refuse("admin_reject", id, 400)
    ELSE Save("admin_reject", id,
              [orders[id] EXCEPT !.status = "admin-rejected",
                                 !.admin_rejection_notes = notes,
                                 !.rejected_by_admin = user],
              200, [trail[id] EXCEPT !.via = "admin_reject"])

----------------------------------------------------------------------------
(* AssignOrdersToCraftsman.post with OrderAssignmentSerializer *)

\* validate_bp_code and the view's lookup without  role="CRAFTSMAN" : any
\* directory entry may be assigned
IsDirectoryCode(bp) == \E i \in 1..Len(Directory) : Directory[i].id = bp

\* OrderAssignmentSerializer.validate_bp_code: the "CODE-Business Name" of the
\* request names directory entry bp (NULL: it names none, or is malformed)
IsCraftsmanCode(bp) ==
    \E i \in 1..Len(Directory) :
        Directory[i].id = bp /\ Directory[i].role = "CRAFTSMAN"

\* AssignToCraftsman without  order.status = "assigned": it sets the craftsman
\* and leaves the status
AssignToCraftsmanKeepsStatus(user, id, bp, due) ==
    IF ~IsCraftsmanCode(bp) \/ id \notin Ids THEN Refuse("assign", 0, 400)
    ELSE Save("assign", id,
              [orders[id] EXCEPT !.craftsman = bp,
                                 !.due_date = IF due # NULL THEN due ELSE @],
              200, trail[id])

\* AssignToCraftsman without  if due_date: : it stores the request's due_date
\* even when the request carries none
AssignToCraftsmanAlwaysSetsDueDate(user, id, bp, due) ==
    IF ~IsCraftsmanCode(bp) \/ id \notin Ids THEN Refuse("assign", 0, 400)
    ELSE Save("assign", id,
              [orders[id] EXCEPT !.craftsman = bp,
                                 !.status = "assigned",
                                 !.due_date = due],
              200, [trail[id] EXCEPT !.via = "assign"])

\* due is NULL when the request carries no due_date
AssignToCraftsman(user, id, bp, due) ==
    IF ~IsCraftsmanCode(bp) \/ id \notin Ids THEN Refuse("assign", 0, 400)
    ELSE Save("assign", id,
              [orders[id] EXCEPT !.craftsman = bp,
                                 !.status = "assigned",
                                 !.due_date = IF due # NULL THEN due ELSE @],
              200, [trail[id] EXCEPT !.via = "assign"])

----------------------------------------------------------------------------
(* CraftsmanOrderResponse *)

\* the subquery of get_next_available_craftsman over table t:
\* Order.objects.filter(order_no=..., status='rejected')
\*      .values_list('craftsman__id', flat=True)
RejectedCraftsmanIds(t, no) ==
    { t[i].craftsman : i \in { j \in DOMAIN t : t[j].order_no = no
                                               /\ t[j].status = "rejected" } }

\* How the store evaluates the row filter  NOT (id IN (subquery))  when a NULL
\* is among the subquery's values: a store with SQL's three-valued logic
\* answers unknown for every id the subquery does not list, and drops the row;
\* a store with two-valued logic ignores the NULL.  The store is not part of
\* the listed sources, so either may be the one in use.
NullLogics == {"three_valued", "two_valued"}

NotIn(logic, b, s) ==
    /\ b \notin s
    /\ (logic = "three_valued" => NULL \notin s)

\* CraftsmanOrderResponse.get_next_available_craftsman, NULL for no row
NextAvailableCraftsman(logic, t, no) ==
    LET rejected_by == RejectedCraftsmanIds(t, no)
        free == SelectSeq(Craftsmen, LAMBDA e : NotIn(logic, e.id, rejected_by))
    IN IF free = << >> THEN NULL ELSE free[1].id

\* the handler name a response carries
RespondOp(action) ==
    IF action = "accept" THEN "craftsman_accept"
    ELSE IF action = "reject" THEN "craftsman_reject"
    ELSE "craftsman_invalid"

\* CraftsmanRespond that writes rejected_by only while it is empty: a later
\* rejection does not overwrite the first rejecter
CraftsmanRespondKeepsFirstRejecter(user, no, action, logic) ==
    IF no = Blank \/ action \notin {"accept", "reject"}
    THEN Refuse(RespondOp(action), 0, 400)
    ELSE IF WithOrderNo(no) = {} THEN Refuse(RespondOp(action), 0, 404)
    ELSE IF Cardinality(WithOrderNo(no)) > 1 THEN Refuse(RespondOp(action), 0, 500)
    ELSE
      LET id == CHOOSE i \in WithOrderNo(no) : TRUE
          order == orders[id]
      IN IF order.status # "assigned" THEN Refuse(RespondOp(action), id, 400)
         ELSE IF action = "accept"
         THEN Save("craftsman_accept", id, [order EXCEPT !.status = "in-process"],
                   IF order.craftsman = NULL THEN 500 ELSE 200,
                   [trail[id] EXCEPT !.via = "craftsman_accept",
                                          !.accepted = TRUE])
         ELSE
           LET current_craftsman == order.craftsman
               rejected == [order EXCEPT !.status = "rejected",
                                         !.rejected_by = IF @ # NULL THEN @
                                                         ELSE current_craftsman,
                                         !.craftsman = NULL]
               saved == [orders EXCEPT ![id] = rejected]
               next_craftsman == NextAvailableCraftsman(logic, saved, order.order_no)
               rejecters == trail[id].rejecters \cup {current_craftsman}
           IN IF next_craftsman # NULL
              THEN Save("craftsman_reject", id,
                        [rejected EXCEPT !.craftsman = next_craftsman,
                                         !.status = "assigned"],
                        200, [trail[id] EXCEPT !.via = "reassign",
                                               !.rejecters = rejecters])
              ELSE Save("craftsman_reject", id, rejected,
                        200, [trail[id] EXCEPT !.via = "craftsman_reject",
                                               !.rejecters = rejecters])

CraftsmanRespond(user, no, action, logic) ==
    IF no = Blank \/ action \notin {"accept", "reject"}
    THEN Refuse(RespondOp(action), 0, 400)
    ELSE IF WithOrderNo(no) = {} THEN Refuse(RespondOp(action), 0, 404)
    ELSE IF Cardinality(WithOrderNo(no)) > 1 THEN Refuse(RespondOp(action), 0, 500)
    ELSE
      LET id == CHOOSE i \in WithOrderNo(no) : TRUE
          order == orders[id]
      IN IF order.status # "assigned" THEN Refuse(RespondOp(action), id, 400)
         ELSE IF action = "accept"
         THEN Save("craftsman_accept", id, [order EXCEPT !.status = "in-process"],
                   IF order.craftsman = NULL THEN 500 ELSE 200,
                   [trail[id] EXCEPT !.via = "craftsman_accept",
                                          !.accepted = TRUE])
         ELSE
           LET current_craftsman == order.craftsman
               rejected == [order EXCEPT !.status = "rejected",
                                         !.rejected_by = current_craftsman,
                                         !.craftsman = NULL]
               saved == [orders EXCEPT ![id] = rejected]
               next_craftsman == NextAvailableCraftsman(logic, saved, order.order_no)
               rejecters == trail[id].rejecters \cup {current_craftsman}
           IN IF next_craftsman # NULL
              THEN Save("craftsman_reject", id,
                        [rejected EXCEPT !.craftsman = next_craftsman,
                                         !.status = "assigned"],
                        200, [trail[id] EXCEPT !.via = "reassign",
                                               !.rejecters = rejecters])
              ELSE Save("craftsman_reject", id, rejected,
                        200, [trail[id] EXCEPT !.via = "craftsman_reject",
                                               !.rejecters = rejecters])

----------------------------------------------------------------------------
(* ApproveOrderView: the craftsman reports the order complete *)

MarkComplete(user, no) ==
    IF WithOrderNo(no) = {} THEN Refuse("mark_complete", 0, 404)
    ELSE IF Cardinality(WithOrderNo(no)) > 1 THEN Refuse("mark_complete", 0, 500)
    ELSE
      LET id == CHOOSE i \in WithOrderNo(no) : TRUE
      IN IF orders[id].status # "in-process" THEN Refuse("mark_complete", id, 400)
         ELSE Save("mark_complete", id,
                   [orders[id] EXCEPT !.status = "awaiting-approval"],
                   200, [trail[id] EXCEPT !.via = "mark_complete"])

----------------------------------------------------------------------------
(* CompletedOrdersView.post: the admin approves the completion *)

\* ApproveCompletion without its status check: it completes an order in any
\* status
ApproveCompletionAnyStatus(user, no) ==
    IF WithOrderNo(no) = {} THEN Refuse("approve_completion", 0, 404)
    ELSE IF Cardinality(WithOrderNo(no)) > 1 THEN Refuse("approve_completion", 0, 500)
    ELSE
      LET id == CHOOSE i \in WithOrderNo(no) : TRUE
      IN Save("approve_completion", id,
              [orders[id] EXCEPT !.status = "complete"],
              200, [trail[id] EXCEPT !.via = "approve_completion"])

ApproveCompletion(user, no) ==
    IF WithOrderNo(no) = {} THEN Refuse("approve_completion", 0, 404)
    ELSE IF Cardinality(WithOrderNo(no)) > 1 THEN Refuse("approve_completion", 0, 500)
    ELSE
      LET id == CHOOSE i \in WithOrderNo(no) : TRUE
      IN IF orders[id].status # "awaiting-approval"
         THEN Refuse("approve_completion", id, 400)
         ELSE Save("approve_completion", id,
                   [orders[id] EXCEPT !.status = "complete"],
                   200, [trail[id] EXCEPT !.via = "approve_completion"])

----------------------------------------------------------------------------
(* OrderRequestVerificationView.post *)

\* action "accept" copies product_name, quantity and customer_name of the
\* request row into Order.objects.create: with an Order model that has no such
\* columns the handler raises before it writes; with one that has them it adds
\* a row (no order_no, default status) and marks the request accepted.  The
\* Order model is not part of the listed sources, so either may happen.
\* cap bounds the store.
RequestVerify(cap, user, id, action) ==
    IF RoleName(user) # "Key User" THEN Refuse("request_verify", 0, 403)
    ELSE IF id \notin Ids THEN Refuse("request_verify", 0, 404)
    ELSE IF orders[id].status # "pending" THEN Refuse("request_verify", id, 400)
    ELSE IF action = "accept"
    THEN \/ Refuse("request_verify", id, 500)
         \/ /\ nextId <= cap
            /\ orders' = Extend([orders EXCEPT ![id].status = "accepted"], nextId,
                                NewOrder(Blank, DefaultStatus, NULL, NULL))
            /\ trail' = Extend([trail EXCEPT ![id].via = "request_accept"],
                               nextId, NewTrail)
            /\ nextId' = nextId + 1
            /\ issued' = Extend(issued, nextId, Blank)
            /\ resp' = Response("request_verify", id, 201)
            /\ UNCHANGED <<calls, today>>
       ELSE IF action = "reject"
    THEN Save("request_verify", id, [orders[id] EXCEPT !.status = "rejected"],
              200, [trail[id] EXCEPT !.via = "request_reject"])
    ELSE Refuse("request_verify", id, 400)

----------------------------------------------------------------------------
(* OrderDetailView.put with OrderSerializer, partial=True *)

\* the request carries a due_date (status, craftsman, order_no and order_date
\* are no writable fields of OrderSerializer)
OrderUpdate(user, no, due) ==
    IF WithOrderNo(no) = {} THEN Refuse("update", 0, 404)
    ELSE IF Cardinality(WithOrderNo(no)) > 1 THEN Refuse("update", 0, 500)
    ELSE
      LET id == CHOOSE i \in WithOrderNo(no) : TRUE
      IN IF ~ValidDueDate(due) THEN Refuse("update", id, 400)
         ELSE Save("update", id, [orders[id] EXCEPT !.due_date = due],
                   200, trail[id])

----------------------------------------------------------------------------
(* The specification: any user may send any request at any time *)

Next ==
    \/ \E bp \in {NULL, 3}, due \in DueDates : OrderCreate(MaxOrders, bp, due)
    \/ \E u \in Users, no \in OrderNoInputs, due \in DueDates : OrderUpdate(u, no, due)
    \/ \E u \in Users, id \in IdInputs(MaxOrders),
          a \in {"accept", "reject", "cancel"} : RequestVerify(MaxOrders, u, id, a)
    \/ \E u \in Users, id \in IdInputs(MaxOrders), n \in Notes :
          KeyUserApprove(u, id, n)
    \/ \E u \in Users, id \in IdInputs(MaxOrders), n \in Notes :
          KeyUserDelete(u, id, n)
    \/ \E u \in Users, id \in IdInputs(MaxOrders), bp \in DirectoryIds \cup {NULL},
          due \in DueDates \cup {NULL} : AssignToCraftsman(u, id, bp, due)
    \/ \E u \in Users, no \in OrderNoInputs \cup {Blank},
          a \in {"accept", "reject", "cancel"}, l \in NullLogics :
             CraftsmanRespond(u, no, a, l)
    \/ \E u \in Users, no \in OrderNoInputs : MarkComplete(u, no)
    \/ \E u \in Users, no \in OrderNoInputs : ApproveCompletion(u, no)
    \/ \E u \in Users, id \in IdInputs(MaxOrders), n \in Notes :
          AdminVerify(u, id, n)
    \/ \E u \in Users, id \in IdInputs(MaxOrders), n \in Notes :
          AdminReject(u, id, n)

Spec == Init /\ [][Next]_vars

----------------------------------------------------------------------------
(* The intake of orders: creation, update and the key user's handlers, on a *)
(* store of several rows                                                    *)

NextIntake ==
    \/ \E bp \in {NULL, 3}, due \in DueDates :
          OrderCreate(MaxIntakeOrders, bp, due)
    \/ \E u \in Users, no \in OrderNoInputs, due \in DueDates : OrderUpdate(u, no, due)
    \/ \E u \in Users, id \in IdInputs(MaxIntakeOrders),
          a \in {"accept", "reject", "cancel"} :
             RequestVerify(MaxIntakeOrders, u, id, a)
    \/ \E u \in Users, id \in IdInputs(MaxIntakeOrders), n \in Notes :
          KeyUserApprove(u, id, n)
    \/ \E u \in Users, id \in IdInputs(MaxIntakeOrders), n \in Notes :
          KeyUserDelete(u, id, n)

SpecIntake == Init /\ [][NextIntake]_vars

----------------------------------------------------------------------------
(* Order numbering: creations and the key user's reject-deletes, one at a *)
(* time, with due dates before and after today                            *)

\* the due_date values a creation request may carry
CreateDueDates == -1..2

NextCreateDelete ==
    \/ \E bp \in {NULL, 3}, due \in CreateDueDates :
          OrderCreate(MaxCreations, bp, due)
    \/ \E u \in Users, id \in IdInputs(MaxCreations), n \in Notes :
          KeyUserDelete(u, id, n)

SpecCreateDelete == Init /\ [][NextCreateDelete]_vars

----------------------------------------------------------------------------
(* Concurrent creations: OrderCreateView.post on several workers.  Neither *)
(* the view nor OrderSerializer.create opens a transaction or takes a     *)
(* lock, so the query for the last order and the INSERT are two steps.    *)

\* the workers that are between their read and their insert
Inserting == { w \in Workers : calls[w].pc = "insert" }

\* is_valid(), then OrderSerializer.create up to the INSERT: the read of the
\* last order and the new order_no, kept in the worker's validated_data
CreateRead(w, cap, bp, due) ==
    /\ calls[w].pc = "idle"
    /\ IF ~ValidDueDate(due) \/ bp = NULL
       THEN /\ resp' = Response("create", 0, 400)
            /\ UNCHANGED <<orders, nextId, trail, issued, calls, today>>
       ELSE /\ nextId + Cardinality(Inserting) <= cap
            /\ calls' = [calls EXCEPT ![w] =
                   [ pc |-> "insert", order_no |-> NewOrderNo,
                     bp_code |-> bp, due_date |-> due ]]
            /\ UNCHANGED <<orders, nextId, resp, trail, issued, today>>

\* super().create(validated_data): the INSERT, and the 201 response
CreateInsert(w) ==
    /\ calls[w].pc = "insert"
    /\ orders' = Extend(orders, nextId,
                        NewOrder(calls[w].order_no, "pending",
                                 calls[w].bp_code, calls[w].due_date))
    /\ trail' = Extend(trail, nextId, NewTrail)
    /\ issued' = Extend(issued, nextId, calls[w].order_no)
    /\ nextId' = nextId + 1
    /\ resp' = Response("create", nextId, 201)
    /\ calls' = [calls EXCEPT ![w] = Idle]
    /\ UNCHANGED today

NextCreateRace ==
    \/ \E w \in Workers, bp \in {NULL, 3}, due \in DueDates :
          CreateRead(w, MaxRacingCreations, bp, due)
    \/ \E w \in Workers : CreateInsert(w)

SpecCreateRace == Init /\ [][NextCreateRace]_vars

----------------------------------------------------------------------------
(* Concurrent rejections: CraftsmanOrderResponse.post with action reject *)
(* on several workers.  The handler opens no transaction and takes no    *)
(* lock: its query, its two order.save() and the query of                *)
(* get_next_available_craftsman are separate steps, and each save writes *)
(* every column of the worker's copy of the row.                         *)

\* Order.objects.get(order_no=...), the status check, and the changes to the
\* worker's copy of the row
RejectRead(w, user, no, logic) ==
    /\ calls[w].pc = "idle"
    /\ IF no = Blank
       THEN Refuse("craftsman_reject", 0, 400)
       ELSE IF WithOrderNo(no) = {} THEN Refuse("craftsman_reject", 0, 404)
       ELSE IF Cardinality(WithOrderNo(no)) > 1
       THEN Refuse("craftsman_reject", 0, 500)
       ELSE
         LET id == CHOOSE i \in WithOrderNo(no) : TRUE
             order == orders[id]
         IN IF order.status # "assigned" THEN Refuse("craftsman_reject", id, 400)
            ELSE /\ calls' = [calls EXCEPT ![w] =
                        [ pc |-> "save_rejected", id |-> id, logic |-> logic,
                          order |-> [order EXCEPT !.status = "rejected",
                                                  !.rejected_by = order.craftsman,
                                                  !.craftsman = NULL] ]]
                 /\ UNCHANGED <<orders, nextId, resp, trail, issued, today>>

\* the first order.save(): status rejected, craftsman None
RejectSave(w) ==
    /\ calls[w].pc = "save_rejected"
    /\ orders' = [orders EXCEPT ![calls[w].id] = calls[w].order]
    /\ trail' = [trail EXCEPT ![calls[w].id] =
                    [@ EXCEPT !.via = "craftsman_reject",
                              !.rejecters = @ \cup {calls[w].order.rejected_by}]]
    /\ calls' = [calls EXCEPT ![w].pc = "pick"]
    /\ UNCHANGED <<nextId, resp, issued, today>>

\* get_next_available_craftsman(order): with a replacement the worker's copy
\* is set to it and to assigned; without one the handler answers
RejectPick(w) ==
    /\ calls[w].pc = "pick"
    /\ LET next_craftsman ==
               NextAvailableCraftsman(calls[w].logic, orders,
                                      calls[w].order.order_no)
       IN IF next_craftsman # NULL
          THEN /\ calls' = [calls EXCEPT ![w].pc = "save_assigned",
                                         ![w].order.craftsman = next_craftsman,
                                         ![w].order.status = "assigned"]
               /\ UNCHANGED <<orders, nextId, resp, trail, issued, today>>
          ELSE /\ resp' = Response("craftsman_reject", calls[w].id, 200)
               /\ calls' = [calls EXCEPT ![w] = Idle]
               /\ UNCHANGED <<orders, nextId, trail, issued, today>>

\* the second order.save(), and the response that names the new craftsman
RejectReassign(w) ==
    /\ calls[w].pc = "save_assigned"
    /\ orders' = [orders EXCEPT ![calls[w].id] = calls[w].order]
    /\ trail' = [trail EXCEPT ![calls[w].id].via = "reassign"]
    /\ resp' = Response("craftsman_reject", calls[w].id, 200)
    /\ calls' = [calls EXCEPT ![w] = Idle]
    /\ UNCHANGED <<nextId, issued, today>>

NextRejectRace ==
    \/ \E due \in DueDates : OrderCreate(MaxRacedOrders, 3, due)
    \/ \E id \in IdInputs(MaxRacedOrders), bp \in DirectoryIds :
          AssignToCraftsman("admin", id, bp, NULL)
    \/ \E w \in Workers, no \in OrderNoInputs \cup {Blank}, l \in NullLogics :
          RejectRead(w, "craftsman1", no, l)
    \/ \E w \in Workers : RejectSave(w)
    \/ \E w \in Workers : RejectPick(w)
    \/ \E w \in Workers : RejectReassign(w)

SpecRejectRace == Init /\ [][NextRejectRace]_vars

----------------------------------------------------------------------------
(* The workflow over several days: every handler, requests that also supply *)
(* an order_date, and the passing of days                                   *)

\* the dates a request may carry as due_date or as order_date
CalendarDates == 0..(MaxDays + 1)

\* midnight: date.today() moves on
Tick ==
    /\ today < MaxDays
    /\ today' = today + 1
    /\ UNCHANGED <<orders, nextId, resp, trail, issued, calls>>

\* OrderSerializer.update with a writable order_date: a PUT that supplies an
\* order_date stores it
OrderUpdateWritesOrderDate(user, no, due, od) ==
    IF WithOrderNo(no) = {} THEN Refuse("update", 0, 404)
    ELSE IF Cardinality(WithOrderNo(no)) > 1 THEN Refuse("update", 0, 500)
    ELSE
      LET id == CHOOSE i \in WithOrderNo(no) : TRUE
      IN IF ~ValidDueDate(due) THEN Refuse("update", id, 400)
         ELSE Save("update", id,
                   [orders[id] EXCEPT !.due_date = due,
                                      !.order_date = IF od # NULL THEN od ELSE @],
                   200, trail[id])

\* a creation request that supplies order_date od (NULL: none).  order_date is
\* a SerializerMethodField of OrderSerializer, so it is read-only: the value
\* of the request is dropped before validate() and create() run
OrderCreateSupplying(cap, bp, due, od) == OrderCreate(cap, bp, due)

\* a PUT that supplies order_date od (NULL: none): dropped likewise
OrderUpdateSupplying(user, no, due, od) == OrderUpdate(user, no, due)

NextCalendar ==
    \/ Tick
    \/ \E bp \in {NULL, 3}, due \in CalendarDates, od \in CalendarDates \cup {NULL} :
          OrderCreateSupplying(MaxOrders, bp, due, od)
    \/ \E no \in OrderNoInputs, due \in CalendarDates,
          od \in CalendarDates \cup {NULL} :
             OrderUpdateSupplying("keyuser", no, due, od)
    \/ \E id \in IdInputs(MaxOrders), a \in {"accept", "reject"} :
          RequestVerify(MaxOrders, "keyuser", id, a)
    \/ \E id \in IdInputs(MaxOrders), n \in Notes : KeyUserApprove("keyuser", id, n)
    \/ \E id \in IdInputs(MaxOrders), n \in Notes : KeyUserDelete("keyuser", id, n)
    \/ \E id \in IdInputs(MaxOrders), bp \in DirectoryIds,
          due \in CalendarDates \cup {NULL} :
             AssignToCraftsman("admin", id, bp, due)
    \/ \E no \in OrderNoInputs, a \in {"accept", "reject"}, l \in NullLogics :
          CraftsmanRespond("craftsman1", no, a, l)
    \/ \E no \in OrderNoInputs : MarkComplete("craftsman1", no)
    \/ \E no \in OrderNoInputs : ApproveCompletion("admin", no)
    \/ \E id \in IdInputs(MaxOrders), n \in Notes : AdminVerify("admin", id, n)
    \/ \E id \in IdInputs(MaxOrders), n \in Notes : AdminReject("admin", id, n)

SpecCalendar == Init /\ [][NextCalendar]_vars

----------------------------------------------------------------------------
(* Assignment on a store of several rows: creation, the two approvals and *)
(* the assignment                                                         *)

NextAssignment ==
    \/ \E due \in DueDates : OrderCreate(MaxAssignedOrders, 3, due)
    \/ \E id \in IdInputs(MaxAssignedOrders), n \in Notes :
          KeyUserApprove("keyuser", id, n)
    \/ \E id \in IdInputs(MaxAssignedOrders), n \in Notes :
          AdminVerify("admin", id, n)
    \/ \E id \in IdInputs(MaxAssignedOrders), bp \in DirectoryIds \cup {NULL},
          due \in DueDates \cup {NULL} : AssignToCraftsman("admin", id, bp, due)

SpecAssignment == Init /\ [][NextAssignment]_vars

----------------------------------------------------------------------------
(* Concurrent admin decisions: AdminVerificationView.post and .delete on  *)
(* several workers.  Neither opens a transaction or takes a lock: the     *)
(* query with its status check and order.save() are two steps, and the    *)
(* save writes every column of the worker's copy of the row.              *)

\* get_object_or_404, the status check, and the changes to the worker's copy:
\* decision is "admin_verify" (post) or "admin_reject" (delete)
AdminRead(w, decision, user, id, notes) ==
    /\ calls[w].pc = "idle"
    /\ IF id \notin Ids THEN Refuse(decision, 0, 404)
       ELSE IF orders[id].status # "in-process" THEN Refuse(decision, id, 400)
       ELSE /\ calls' = [calls EXCEPT ![w] =
                   [ pc |-> "admin_save", id |-> id, op |-> decision,
                     order |-> IF decision = "admin_verify"
                               THEN [orders[id] EXCEPT
                                       !.status = "verified",
                                       !.admin_approval_notes = notes,
                                       !.verified_by_admin = user]
                               ELSE [orders[id] EXCEPT
                                       !.status = "admin-rejected",
                                       !.admin_rejection_notes = notes,
                                       !.rejected_by_admin = user] ]]
            /\ UNCHANGED <<orders, nextId, resp, trail, issued, today>>

\* order.save(), and the 200 response
AdminSave(w) ==
    /\ calls[w].pc = "admin_save"
    /\ orders' = [orders EXCEPT ![calls[w].id] = calls[w].order]
    /\ trail' = [trail EXCEPT ![calls[w].id].via = calls[w].op]
    /\ resp' = Response(calls[w].op, calls[w].id, 200)
    /\ calls' = [calls EXCEPT ![w] = Idle]
    /\ UNCHANGED <<nextId, issued, today>>

NextAdminRace ==
    \/ \E due \in DueDates : OrderCreate(MaxAdminRacedOrders, 3, due)
    \/ \E id \in IdInputs(MaxAdminRacedOrders), n \in Notes :
          KeyUserApprove("keyuser", id, n)
    \/ \E w \in Workers, d \in {"admin_verify", "admin_reject"},
          id \in IdInputs(MaxAdminRacedOrders), n \in Notes :
             AdminRead(w, d, "admin", id, n)
    \/ \E w \in Workers : AdminSave(w)

SpecAdminRace == Init /\ [][NextAdminRace]_vars

----------------------------------------------------------------------------
(* Properties *)

\* user u is the craftsman the row is assigned to
IsAssignedCraftsman(u, id) ==
    orders[id].craftsman # NULL /\ PartnerOf(u) = orders[id].craftsman

\* the row has been assigned to a craftsman at some time: an assignment sets
\* craftsman, and only a craftsman's rejection clears it, into rejected_by
EverAssigned(id) == orders[id].craftsman # NULL \/ orders[id].rejected_by # NULL

C2_WrongStatusRefused ==
    [][ LET Precondition(op) ==
                CASE op = "key_approve" -> {"pending"}
                  [] op = "key_delete" -> {"pending"}
                  [] op = "admin_verify" -> {"in-process"}
                  [] op = "admin_reject" -> {"in-process"}
                  [] op = "craftsman_accept" -> {"assigned"}
                  [] op = "craftsman_reject" -> {"assigned"}
                  [] op = "mark_complete" -> {"assigned", "in-process"}
                  [] op = "approve_completion" -> {"awaiting-approval"}
            GuardedOps ==
                {"key_approve", "key_delete", "admin_verify", "admin_reject",
                 "craftsman_accept", "craftsman_reject", "mark_complete",
                 "approve_completion"}
        IN \A id \in Ids :
             ( /\ resp'.op \in GuardedOps
               /\ resp'.id = id
               /\ orders[id].status \notin Precondition(resp'.op) )
             => ( resp'.code = 400 /\ orders' = orders ) ]_vars

\* C2 happens: a key-user reject-delete was refused on an in-process order.
C2_Witness ==
    /\ resp.op = "key_delete" /\ resp.code = 400
    /\ resp.id \in Ids
    /\ orders[resp.id].status = "in-process"

\* C3: every change of an order's status is one of the edges of the status
\* state machine, and an assignment does not succeed on an order that is
\* already assigned.
C3_OnlyAllowedEdges ==
    [][ LET AllowedEdges ==
                { <<"pending", "in-process">>, <<"in-process", "verified">>,
                  <<"in-process", "admin-rejected">>, <<"verified", "assigned">>,
                  <<"assigned", "in-process">>, <<"assigned", "rejected">>,
                  <<"rejected", "assigned">>, <<"assigned", "awaiting-approval">>,
                  <<"in-process", "awaiting-approval">>,
                  <<"awaiting-approval", "complete">> }
        IN \A id \in Ids \cap DOMAIN orders' :
             /\ orders'[id].status # orders[id].status
                   => <<orders[id].status, orders'[id].status>> \in AllowedEdges
             /\ ~( /\ resp'.op = "assign" /\ resp'.code = 200 /\ resp'.id = id
                   /\ orders[id].status = "assigned" ) ]_vars

\* C4: once an order is complete or admin-rejected, no operation changes its
\* status or its craftsman.
C4_TerminalStatesAbsorbing ==
    [][ \A id \in Ids :
          orders[id].status \in {"complete", "admin-rejected"}
          => ( /\ id \in DOMAIN orders'
               /\ orders'[id].status = orders[id].status
               /\ orders'[id].craftsman = orders[id].craftsman ) ]_vars

\* C5 as stated: an order with a craftsman is assigned, or in-process after a
\* craftsman's acceptance; the craftsman field is null in every other status.
C5_CraftsmanOnlyWhileAssignedOrWorking ==
    \A id \in Ids :
        orders[id].craftsman # NULL =>
            \/ orders[id].status = "assigned"
            \/ ( orders[id].status = "in-process"
                 /\ trail[id].via = "craftsman_accept" )

\* C5 amended: the craftsman field is null while the order is pending and
\* after a rejection that found no replacement (status rejected); an order
\* with a craftsman is in one of the statuses that follow an assignment, and
\* keeps the craftsman through awaiting-approval and complete.
C5_CraftsmanNullWhenPendingOrRejected ==
    \A id \in Ids :
        orders[id].craftsman # NULL =>
            orders[id].status \in
                {"assigned", "in-process", "verified", "admin-rejected",
                 "awaiting-approval", "complete"}

\* C5 amended happens: a complete order that still names its craftsman.
C5_Witness ==
    \E id \in Ids :
        /\ orders[id].status = "complete"
        /\ orders[id].craftsman # NULL
        /\ trail[id].accepted

\* C6: craftsman accept, craftsman reject and mark complete succeed only for
\* the user who is the order's assigned craftsman.
C6_OnlyAssignedCraftsmanActs ==
    [][ \A u \in Users, no \in OrderNoInputs :
          \A id \in WithOrderNo(no) :
            /\ ( ( \E a \in {"accept", "reject"}, l \in NullLogics :
                      CraftsmanRespond(u, no, a, l) )
                 /\ resp'.code = 200 )
               => IsAssignedCraftsman(u, id)
            /\ ( MarkComplete(u, no) /\ resp'.code = 200 )
               => IsAssignedCraftsman(u, id) ]_vars

\* C7: key-user approve and reject-delete succeed only for a Key User, and
\* admin verify, admin reject and approve completion only for an Admin.
C7_OnlyTheRoleActs ==
    [][ /\ \A u \in Users, id \in IdInputs(MaxOrders), n \in Notes :
            /\ ( KeyUserApprove(u, id, n) /\ resp'.code = 200 )
                  => RoleName(u) = "Key User"
            /\ ( KeyUserDelete(u, id, n) /\ resp'.code = 200 )
                  => RoleName(u) = "Key User"
            /\ ( AdminVerify(u, id, n) /\ resp'.code = 200 )
                  => RoleName(u) = "Admin"
            /\ ( AdminReject(u, id, n) /\ resp'.code = 200 )
                  => RoleName(u) = "Admin"
        /\ \A u \in Users, no \in OrderNoInputs :
            ( ApproveCompletion(u, no) /\ resp'.code = 200 )
                  => RoleName(u) \in {"Admin", "Super Admin"} ]_vars

\* C8: an order is awaiting-approval or complete only if, before, an admin
\* verified it, it was assigned to a craftsman and a craftsman accepted it.
C8_CompleteOnlyAfterAcceptance ==
    \A id \in Ids :
        orders[id].status \in {"awaiting-approval", "complete"} =>
            /\ orders[id].verified_by_admin # NoUser
            /\ EverAssigned(id)
            /\ trail[id].accepted

\* C9: admin verify and admin reject do not succeed on an order that is
\* in-process by a craftsman's acceptance, and a verified order has been
\* approved by a key user.
C9_AdminActsOnlyBeforeAssignment ==
    [][ \A id \in Ids \cap DOMAIN orders' :
          /\ ( /\ resp'.op \in {"admin_verify", "admin_reject"}
               /\ resp'.code = 200 /\ resp'.id = id )
             => trail[id].via # "craftsman_accept"
          /\ orders'[id].status = "verified"
             => orders'[id].approved_by_key_user # NoUser ]_vars

\* C10: mark complete by the assigned craftsman succeeds on an order whose
\* status is assigned, and sets the status to awaiting-approval.
C10_MarkCompleteFromAssigned ==
    [][ \A u \in Users, no \in OrderNoInputs :
          \A id \in WithOrderNo(no) :
            ( /\ MarkComplete(u, no)
              /\ orders[id].status = "assigned"
              /\ IsAssignedCraftsman(u, id) )
            => ( /\ resp'.code = 200
                 /\ orders'[id].status = "awaiting-approval" ) ]_vars

\* the craftsman directory entries other than c, in primary-key order
OtherCraftsmen(c) == SelectSeq(Craftsmen, LAMBDA e : e.id # c)

\* C11: the scenario runs step by step.  The first created order gets
\* order_no "001" and status pending; key-user approve makes it in-process,
\* admin verify verified, assign to C1 assigned; when C1 rejects, the order is
\* assigned again with craftsman C2, the first CRAFTSMAN that is not C1,
\* whichever of the two directory entries C1 is; C2's accept makes it
\* in-process, mark complete awaiting-approval, the admin's approval complete.
C11_ScenarioRuns ==
    [][ /\ \A bp \in {NULL, 3}, due \in DueDates :
             ( OrderCreate(MaxOrders, bp, due) /\ resp'.code = 201 /\ issued = << >> )
             => ( /\ orders'[nextId].order_no = << 0, 0, 1 >>
                  /\ orders'[nextId].status = "pending" )
        /\ \A id \in Ids, n \in Notes :
             /\ ( KeyUserApprove("keyuser", id, n) /\ trail[id].via = "create" )
                => ( resp'.code = 200 /\ orders'[id].status = "in-process" )
             /\ ( AdminVerify("admin", id, n) /\ trail[id].via = "key_approve" )
                => ( resp'.code = 200 /\ orders'[id].status = "verified" )
        /\ \A id \in Ids, c \in DirectoryIds :
             ( /\ AssignToCraftsman("admin", id, c, NULL)
               /\ IsCraftsmanCode(c) /\ trail[id].via = "admin_verify" )
             => ( /\ resp'.code = 200 /\ orders'[id].status = "assigned"
                  /\ orders'[id].craftsman = c )
        /\ \A u \in Users, no \in OrderNoInputs, l \in NullLogics :
             \A id \in WithOrderNo(no) :
               /\ ( /\ CraftsmanRespond(u, no, "reject", l)
                    /\ trail[id].via = "assign" /\ trail[id].rejecters = {}
                    /\ orders[id].approved_by_key_user = "keyuser"
                    /\ orders[id].verified_by_admin = "admin"
                    /\ orders[id].status = "assigned" )
                  => ( /\ resp'.code = 200 /\ orders'[id].status = "assigned"
                       /\ orders'[id].craftsman =
                              OtherCraftsmen(orders[id].craftsman)[1].id )
               /\ ( /\ CraftsmanRespond(u, no, "accept", l)
                    /\ trail[id].via = "reassign" )
                  => ( resp'.code = 200 /\ orders'[id].status = "in-process" )
               /\ ( MarkComplete(u, no) /\ trail[id].via = "craftsman_accept" )
                  => ( resp'.code = 200
                       /\ orders'[id].status = "awaiting-approval" )
               /\ ( ApproveCompletion("admin", no) /\ trail[id].via = "mark_complete" )
                  => ( resp'.code = 200 /\ orders'[id].status = "complete" ) ]_vars

\* the primary keys of the rows that were created and have been deleted
Deleted == DOMAIN issued \ Ids

\* C12: after any sequence of creations and key-user reject-deletes, run one
\* at a time, no two orders that exist at the same time have the same
\* order_no.
C12_OrderNoUniqueAmongExisting ==
    \A i, j \in Ids : i # j => orders[i].order_no # orders[j].order_no

\* C12 happens: orders were created, one was deleted, others were created
\* after the delete and several orders exist.
C12_Witness ==
    /\ Cardinality(Ids) >= 2
    /\ \E d \in Deleted : \E i \in Ids : i > d

\* C13: the order_no given to a created order, read as an integer, is greater
\* than the order_no given to every order created before it, the orders since
\* deleted included: no number is handed out twice.
C13_OrderNoNeverReissued ==
    \A i, j \in DOMAIN issued :
        i < j => IntOf(issued[i]) < IntOf(issued[j])

\* C17: a creation whose due_date is today or an earlier day answers with a
\* validation error and adds no order; a creation whose due_date is tomorrow
\* or a later day passes the due_date validation: with a bp_code it is
\* answered 201 and the new order carries that due_date.
C17_DueDateMustBeFuture ==
    [][ \A bp \in {NULL, 3}, due \in CreateDueDates :
          OrderCreate(MaxCreations, bp, due) =>
            /\ due <= today => ( /\ resp'.code = 400
                                 /\ orders' = orders /\ nextId' = nextId )
            /\ ( due > today /\ bp # NULL ) =>
                   ( /\ resp'.code = 201
                     /\ DOMAIN orders' = Ids \cup {nextId}
                     /\ orders'[nextId].due_date = due ) ]_vars

\* C17 happens: an order due the day after tomorrow was created, and the
\* last creation request was refused.
C17_Witness ==
    /\ resp.op = "create" /\ resp.code = 400
    /\ \E id \in Ids : orders[id].due_date = 2

\* C18: a key-user reject-delete of a pending order removes that order and
\* leaves every other order as it was; afterwards every request addressed to
\* the removed order, by its primary key or by its order_no, is answered
\* not found.
C18_DeleteRemovesOnlyThatOrder ==
    [][ /\ \A u \in Users, id \in Ids, n \in Notes :
             ( KeyUserDelete(u, id, n) /\ orders[id].status = "pending" )
             => ( /\ DOMAIN orders' = Ids \ {id}
                  /\ \A j \in Ids \ {id} : orders'[j] = orders[j] )
        /\ \A d \in Deleted, u \in Users :
             /\ \A n \in Notes :
                  /\ KeyUserApprove(u, d, n) => resp'.code = 404
                  /\ KeyUserDelete(u, d, n) => resp'.code = 404
             /\ \A a \in {"accept", "reject"} :
                  ( RequestVerify(MaxIntakeOrders, u, d, a)
                    /\ RoleName(u) = "Key User" ) => resp'.code = 404
             /\ \A due \in DueDates :
                  OrderUpdate(u, issued[d], due) => resp'.code = 404 ]_vars

\* the exclusion set of a rejection of row id: the craftsmen who have rejected
\* this order before, and the one who rejects it now
ExclusionSet(id) == trail[id].rejecters \cup {orders[id].craftsman}

\* the directory entries a rejection of row id may choose from: role
\* CRAFTSMAN and outside the exclusion set, in primary-key order
Candidates(id) ==
    SelectSeq(Directory,
              LAMBDA e : e.role = "CRAFTSMAN" /\ e.id \notin ExclusionSet(id))

C14_ConcurrentCreationsGetDistinctNumbers ==
    Cardinality({ orders[i].order_no : i \in Ids }) = Cardinality(Ids)

\* the workers that have read row id as assigned for a rejection and have
\* not answered yet
Rejecting(id) == { w \in Workers : calls[w].pc # "idle" /\ calls[w].id = id }

\* C15: two craftsman-reject requests for the same assigned order do not
\* interleave: while one is between its read of the order and its answer, no
\* other has passed the status check on that order.  (A request that has
\* passed the check meets no further check and answers with success, so two
\* such requests are two reported rejections of one assignment.)
C15_RejectionsDoNotInterleave ==
    \A id \in Ids : Cardinality(Rejecting(id)) <= 1

\* C16: a craftsman's reject for which a replacement exists is one atomic
\* step: the store never holds the order with status rejected and craftsman
\* null while the rejecting request is about to reassign it.
C16_RejectWithReplacementIsAtomic ==
    \A w \in Workers :
        calls[w].pc = "save_assigned" =>
            ~( /\ orders[calls[w].id].status = "rejected"
               /\ orders[calls[w].id].craftsman = NULL )

\* C21: an order's order_date is the day of its creation and no later
\* operation changes it, even days later; an order_date supplied in a create
\* or update request changes nothing.
C21_OrderDateSetOnceAtCreation ==
    [][ /\ \A id \in Ids \cap DOMAIN orders' :
             orders'[id].order_date = orders[id].order_date
        /\ \A id \in DOMAIN orders' \ Ids :
             orders'[id].order_date = today ]_vars

\* C21 happens: on a later day, a PUT has succeeded on an order that was
\* created the day before and has been assigned, accepted and completed.
C21_Witness ==
    /\ resp.op = "update" /\ resp.code = 200 /\ resp.id \in Ids
    /\ orders[resp.id].order_date < today
    /\ orders[resp.id].status = "complete"
    /\ trail[resp.id].accepted

\* C22: a successful assign to craftsman sets the order's craftsman to the
\* named CRAFTSMAN and its status to assigned, sets due_date to the supplied
\* value when the request carries one and leaves due_date as it was when it
\* carries none, and changes no other order.
C22_AssignSetsCraftsmanStatusAndDueDate ==
    [][ \A id \in Ids, bp \in DirectoryIds \cup {NULL}, due \in DueDates \cup {NULL} :
          ( AssignToCraftsman("admin", id, bp, due) /\ resp'.code = 200 )
          => ( /\ IsCraftsmanCode(bp)
               /\ DOMAIN orders' = Ids
               /\ orders'[id].craftsman = bp
               /\ orders'[id].status = "assigned"
               /\ orders'[id].due_date =
                      IF due # NULL THEN due ELSE orders[id].due_date
               /\ \A j \in Ids \ {id} : orders'[j] = orders[j] ) ]_vars

\* C22 happens: an assignment has succeeded on one of several orders, it has
\* stored a due_date that a creation would refuse, and another order is
\* assigned with the due_date it was created with.
C22_Witness ==
    /\ resp.op = "assign" /\ resp.code = 200 /\ resp.id \in Ids
    /\ orders[resp.id].status = "assigned"
    /\ orders[resp.id].due_date = 0
    /\ \E j \in Ids \ {resp.id} :
         /\ orders[j].status = "assigned"
         /\ orders[j].due_date = 1
         /\ orders[j].craftsman # orders[resp.id].craftsman

\* C23: in every reachable state the status of every order is one of the
\* labels of the status state machine; no operation stores another value.
C23_StatusIsAStateLabel ==
    \A id \in Ids :
        orders[id].status \in
            {"pending", "in-process", "verified", "assigned", "rejected",
             "admin-rejected", "awaiting-approval", "complete",
             "completed_by_craftsman"}

\* C24: a successful craftsman reject, with or without a replacement, leaves
\* rejected_by equal to the craftsman the order was assigned to just before
\* the rejection, whatever rejected_by held; every other step leaves
\* rejected_by as it was.
C24_RejectedByIsTheLastRejecter ==
    [][ \A id \in Ids \cap DOMAIN orders' :
          IF resp'.op = "craftsman_reject" /\ resp'.code = 200 /\ resp'.id = id
          THEN orders'[id].rejected_by = orders[id].craftsman
          ELSE orders'[id].rejected_by = orders[id].rejected_by ]_vars

\* C24 happens: craftsman 1 and then craftsman 2 have rejected the order, and
\* rejected_by names craftsman 2.
C24_Witness ==
    /\ resp.op = "craftsman_reject" /\ resp.code = 200 /\ resp.id \in Ids
    /\ trail[resp.id].rejecters = {1, 2}
    /\ orders[resp.id].rejected_by = 2

\* C25: when an admin verify and an admin reject of the same in-process order
\* run concurrently, at most one of them reports success and the final status
\* is the one it wrote: neither writes, and answers with success, onto an
\* order that the other has already decided.
C25_AtMostOneAdminDecisionSucceeds ==
    [][ \A w \in Workers :
          AdminSave(w) =>
            orders[calls[w].id].status \notin
                {"verified", "admin-rejected"} \ {calls[w].order.status} ]_vars

\* C26: with requests handled one at a time, an order with status assigned
\* has a craftsman, and the craftsman of an order is always a directory entry
\* with role CRAFTSMAN.
C26_AssignedHasCraftsmanOfRoleCraftsman ==
    \A id \in Ids :
        /\ orders[id].status = "assigned" => orders[id].craftsman # NULL
        /\ orders[id].craftsman # NULL =>
              \E i \in 1..Len(Craftsmen) : Craftsmen[i].id = orders[id].craftsman

\* C26 happens: an order is assigned by the reassignment that followed a
\* craftsman's rejection.
C26_Witness ==
    \E id \in Ids :
        /\ trail[id].via = "reassign"
        /\ orders[id].status = "assigned"
        /\ orders[id].rejected_by # NULL
        /\ orders[id].craftsman # NULL

\* C27: an order's status becomes complete only by a successful approve
\* completion applied to it while its status is awaiting-approval: the state
\* just before a state with status complete has status awaiting-approval or
\* complete, and no order is created complete.
C27_CompleteOnlyByApproveCompletion ==
    [][ /\ \A id \in Ids \cap DOMAIN orders' :
             ( orders'[id].status = "complete" /\ orders[id].status # "complete" )
             => ( /\ orders[id].status = "awaiting-approval"
                  /\ resp' = Response("approve_completion", id, 200) )
        /\ \A id \in DOMAIN orders' \ Ids :
             orders'[id].status # "complete" ]_vars

\* C27 happens: the last request was an approve completion that succeeded,
\* and its order is complete.
C27_Witness ==
    /\ resp.op = "approve_completion" /\ resp.code = 200 /\ resp.id \in Ids
    /\ orders[resp.id].status = "complete"
    /\ trail[resp.id].via = "approve_completion"

====
